---- MODULE Spec2Model ----
(***************************************************************************)
(* Publish orchestration engine of package-publisher:                      *)
(*   core/state_machine.rs          PublishStateMachine (resumable state)  *)
(*   orchestration/package_publisher.rs  PackagePublisher::publish         *)
(*   orchestration/batch_publisher.rs    BatchPublisher                    *)
(*                                                                         *)
(* One process (index t) is one PublishStateMachine together with the      *)
(* PackagePublisher::publish call that owns it.  All processes work in the *)
(* same project directory, whose two relevant path names are the state     *)
(* file ".publish-state.json" and the temporary ".publish-state.json.tmp". *)
(* std::fs::write is File::create (create or truncate) followed by         *)
(* write_all, so a process keeps a handle between the two; the handle      *)
(* follows its file when a rename moves it and outlives an unlink.         *)
(*                                                                         *)
(* Option<T> is modelled as a sequence: <<>> is None and <<v>> is Some(v). *)
(***************************************************************************)
EXTENDS Integers, Sequences, FiniteSets, TLC

VARIABLES
    files,      \* path name -> None (no such file) or Some(content), where content
                \* is <<>> (no complete document) or <<json>> (one document)
    clock,      \* Utc::now()
    pc,         \* process -> position in its code
    ret,        \* process -> position to continue at when transition/restore/clear returns
    sm,         \* process -> fields of its PublishStateMachine
    handle,     \* process -> where the file it has open for writing is now:
                \* "none", a path name, or "unlinked"
    opts,       \* process -> effective PublishOptions of its publish call
    callres,    \* process -> Result of its last transition/restore/clear call
    outcome,    \* process -> <<>> while running, <<Result<PublishReport, Error>>> after
    calls,      \* process -> collaborators invoked so far, in order
    warnings,   \* process -> the local `warnings` vector of publish
    permit,     \* process -> TRUE while it holds a semaphore permit (`_permit`)
    ncalls,     \* process -> transition calls made on the machine since new/clear/restore
    loaded,     \* process -> number of transitions its last restore took over (else 0)
    startDoc,   \* state file (an Option) as it was when the current publish call began
    persisted,  \* in-memory machine (an Option) at the last save that returned Ok
    attempts,   \* publish calls / state machines begun so far in the project
    detected,   \* what PluginLoader::detect_plugins finds in the project
    findings,   \* number of findings SecretsScanner::scan_project reports for the project
    config,     \* the loaded PublishConfig (project.default_registry, publish.confirm/verify)
    registries, \* argument of publish_to_multiple
    bopts,      \* BatchPublishOptions
    sem,        \* free permits of the tokio Semaphore
    bpc,        \* position of publish_to_multiple
    idx,        \* loop index of the spawn loop / of the sequential and collecting loops
    result,     \* BatchPublishResult
    rt,         \* one RetryManager::retry call: policy, loop variables, what it did
    fault       \* the file operation the storage currently fails, or "none"

fsVars    == <<files>>
procVars  == <<pc, ret, sm, handle, opts, callres, outcome, calls, warnings, permit,
               ncalls, loaded>>
ghostVars == <<startDoc, persisted, attempts>>
others    == <<detected, findings, config, registries, bopts, bpc, idx, result,
               startDoc, attempts, rt, fault>>
envVars   == <<detected, findings, config, rt, fault>>
batchVars == <<registries, bopts, sem, bpc, idx, result>>
vars      == <<files, clock, pc, ret, sm, handle, opts, callres, outcome, calls,
               warnings, permit, ncalls, loaded, startDoc, persisted, attempts,
               detected, findings, config,
               registries, bopts, sem, bpc, idx, result, rt, fault>>

----------------------------------------------------------------------------
(* Bounds *)

MaxRegs == 2        \* longest registry list given to publish_to_multiple
MaxConc == 2        \* largest max_concurrency tried
MaxApiCalls == 2    \* longest sequence of transition calls on one state machine
MaxClock == 1       \* how far the wall clock advances
MaxAttempts == 2    \* publish calls, one after the other, in one project
MaxCrashes == 1     \* crashes of the process that owns a state machine
MaxRetryAttempts == 3   \* largest max_attempts of a retry policy

None == <<>>
Some(v) == <<v>>

Procs == DOMAIN pc

----------------------------------------------------------------------------
(* core/state_machine.rs: PublishState and its serde representation *)

PublishState ==
    {"Initial", "Detecting", "Validating", "DryRun", "Confirming",
     "Publishing", "Verifying", "Success", "Failed", "RolledBack"}

\* #[serde(rename_all = "SCREAMING_SNAKE_CASE")]
StateToJson(s) ==
    CASE s = "Initial"    -> "INITIAL"
      [] s = "Detecting"  -> "DETECTING"
      [] s = "Validating" -> "VALIDATING"
      [] s = "DryRun"     -> "DRY_RUN"
      [] s = "Confirming" -> "CONFIRMING"
      [] s = "Publishing" -> "PUBLISHING"
      [] s = "Verifying"  -> "VERIFYING"
      [] s = "Success"    -> "SUCCESS"
      [] s = "Failed"     -> "FAILED"
      [] s = "RolledBack" -> "ROLLED_BACK"

StateFromJson(j) == CHOOSE s \in PublishState : StateToJson(s) = j

NoFields == [k \in {} |-> None]

\* #[serde(skip_serializing_if = "Option::is_none")]
OptField(name, o) == IF o = None THEN NoFields ELSE (name :> o[1])

ReadOptField(j, name) == IF name \in DOMAIN j THEN Some(j[name]) ELSE None

TransitionToJson(tr) ==
    [from |-> StateToJson(tr.from), to |-> StateToJson(tr.to), timestamp |-> tr.timestamp]
        @@ OptField("metadata", tr.metadata)

TransitionFromJson(j) ==
    [from |-> StateFromJson(j.from), to |-> StateFromJson(j.to),
     timestamp |-> j.timestamp, metadata |-> ReadOptField(j, "metadata")]

\* serde_json::to_string_pretty(&PublishStateData)
DataToJson(d) ==
    [currentState |-> StateToJson(d.current_state),
     transitions  |-> [i \in 1..Len(d.transitions) |-> TransitionToJson(d.transitions[i])],
     canResume    |-> d.can_resume]
        @@ OptField("registry", d.registry)
        @@ OptField("version", d.version)
        @@ OptField("error", d.error)

\* serde_json::from_str::<PublishStateData>
DataFromJson(j) ==
    [current_state |-> StateFromJson(j.currentState),
     registry      |-> ReadOptField(j, "registry"),
     version       |-> ReadOptField(j, "version"),
     transitions   |-> [i \in 1..Len(j.transitions) |-> TransitionFromJson(j.transitions[i])],
     can_resume    |-> j.canResume,
     error         |-> ReadOptField(j, "error")]

----------------------------------------------------------------------------
(* core/state_machine.rs: PublishStateMachine, in-memory part *)

\* PublishStateMachine::new
NewMachine ==
    [current_state |-> "Initial", transitions |-> <<>>,
     registry |-> None, version |-> None, error |-> None]

\* can_resume with Initial left out of the match
CanResumeFromInitial(m) == m.current_state \notin {"Success", "Failed"}

\* PublishStateMachine::can_resume
CanResume(m) == m.current_state \notin {"Success", "Failed", "Initial"}

\* get_state_data taken before the push of the new transition
GetStateDataStale(m) ==
    [current_state |-> m.current_state,
     registry      |-> m.registry,
     version       |-> m.version,
     transitions   |-> SubSeq(m.transitions, 1, Len(m.transitions) - 1),
     can_resume    |-> CanResume(m),
     error         |-> m.error]

\* PublishStateMachine::get_state_data
GetStateData(m) ==
    [current_state |-> m.current_state,
     registry      |-> m.registry,
     version       |-> m.version,
     transitions   |-> m.transitions,
     can_resume    |-> CanResume(m),
     error         |-> m.error]

\* serde_json::Value: only Value::String(s) is merged into the machine
Str(s) == <<"string", s>>
Num(n) == <<"number", n>>

MetaString(meta, key, old) ==
    IF key \in DOMAIN meta /\ meta[key][1] = "string" THEN Some(meta[key][2]) ELSE old

\* transition keeping only the newest record
PushTransitionReplacing(m, to, metadata) ==
    [m EXCEPT !.transitions = <<[from |-> m.current_state, to |-> to,
                                 timestamp |-> clock, metadata |-> metadata]>>,
              !.current_state = to]

\* the statements of PublishStateMachine::transition before self.save()
PushTransition(m, to, metadata) ==
    LET tr == [from |-> m.current_state, to |-> to,
               timestamp |-> clock, metadata |-> metadata]
        m1 == [m EXCEPT !.transitions = Append(@, tr), !.current_state = to]
    IN  IF metadata = None THEN m1
        ELSE [m1 EXCEPT !.registry = MetaString(metadata[1], "registry", @),
                        !.version  = MetaString(metadata[1], "version", @),
                        !.error    = MetaString(metadata[1], "error", @)]

\* the assignments of PublishStateMachine::restore after a successful parse
LoadData(m, d) ==
    [m EXCEPT !.current_state = d.current_state,
              !.registry = d.registry,
              !.version = d.version,
              !.error = d.error,
              !.transitions = d.transitions]

----------------------------------------------------------------------------
(* The project directory *)

STATE_FILE == "state"     \* <project>/.publish-state.json
TEMP_FILE  == "tmp"       \* state_file_path.with_extension("json.tmp")

Exists(name) == files[name] # None

Content(name) == files[name][1]

Incomplete == <<>>

\* write_all through a handle: the bytes go to the file the handle is on; bytes that
\* another handle wrote there since the truncation are overwritten from offset 0,
\* and the tail of a longer document (one with more transitions) stays behind
Written(old, json) ==
    IF old # Incomplete /\ Len(old[1].transitions) > Len(json.transitions)
    THEN Incomplete
    ELSE <<json>>

\* where the open handles are after rename(TEMP_FILE, STATE_FILE)
AfterRename(h) ==
    [t \in DOMAIN h |-> CASE h[t] = TEMP_FILE  -> STATE_FILE
                          [] h[t] = STATE_FILE -> "unlinked"
                          [] OTHER             -> h[t]]

\* where the open handles are after remove_file(STATE_FILE)
AfterRemove(h) ==
    [t \in DOMAIN h |-> IF h[t] = STATE_FILE THEN "unlinked" ELSE h[t]]

\* a reader sees a complete JSON document in the file
Complete(content) == content # Incomplete

\* the file operations of the state machine that the storage can fail:
\* Path::exists (a failed metadata lookup), fs::read_to_string, fs::write (its
\* create and its write_all), fs::rename, fs::remove_file
StorageFaults == {"exists", "read", "create", "write", "rename", "remove"}

NoFault == fault = "none"

\* std::path::Path::exists: false when the metadata of the path cannot be read
PathExists(name) == Exists(name) /\ fault # "exists"

----------------------------------------------------------------------------
(* Results and the ways a step of a process ends *)

\* process t is inside PackagePublisher::publish
Running(t) == pc[t] \notin {"idle", "acquire", "done", "crashed"}

Ok(v)  == [kind |-> "ok", value |-> v]
Err(e) == [kind |-> "err", msg |-> e]

\* the process goes on inside its current function
Continue(t, label) ==
    /\ pc' = [pc EXCEPT ![t] = label]
    /\ UNCHANGED <<callres, outcome, permit, sem>>

\* publish returns `res`; the task's `_permit` guard is dropped with it
Finish(t, res) ==
    /\ pc' = [pc EXCEPT ![t] = "done"]
    /\ outcome' = [outcome EXCEPT ![t] = Some(res)]
    /\ permit' = [permit EXCEPT ![t] = FALSE]
    /\ sem' = IF permit[t] THEN sem + 1 ELSE sem
    /\ UNCHANGED callres

\* a state machine call returns Ok(v) to its caller
CallOk(t, v) ==
    /\ pc' = [pc EXCEPT ![t] = ret[t]]
    /\ callres' = [callres EXCEPT ![t] = Ok(v)]
    /\ UNCHANGED <<outcome, permit, sem>>

\* a state machine call returns Err(e): a direct caller gets it back, publish
\* propagates it with `?` (.await? on every transition/restore/clear)
CallErr(t, e) ==
    IF ret[t] = "api"
    THEN /\ pc' = [pc EXCEPT ![t] = "api"]
         /\ callres' = [callres EXCEPT ![t] = Err(e)]
         /\ UNCHANGED <<outcome, permit, sem>>
    ELSE /\ pc' = [pc EXCEPT ![t] = "done"]
         /\ callres' = [callres EXCEPT ![t] = Err(e)]
         /\ outcome' = [outcome EXCEPT ![t] = Some(Err(e))]
         /\ permit' = [permit EXCEPT ![t] = FALSE]
         /\ sem' = IF permit[t] THEN sem + 1 ELSE sem

\* entry of PublishStateMachine::transition(to, metadata): the in-memory update;
\* what follows is self.save()
CallTransition(t, to, metadata, after) ==
    /\ sm' = [sm EXCEPT ![t] = PushTransition(sm[t], to, metadata)]
    /\ ncalls' = [ncalls EXCEPT ![t] = @ + 1]
    /\ UNCHANGED loaded
    /\ ret' = [ret EXCEPT ![t] = after]
    /\ Continue(t, "save_create")

----------------------------------------------------------------------------
(* core/state_machine.rs: save, restore and clear, one step per file operation *)

\* save: fs::write(&temp_file, json), first half: File::create creates or truncates
SaveCreate(t) ==
    /\ pc[t] = "save_create"
    /\ IF fault = "create"
       THEN CallErr(t, "PermissionDenied") /\ UNCHANGED <<files, handle>>
       ELSE /\ files' = [files EXCEPT ![TEMP_FILE] = Some(Incomplete)]
            /\ handle' = [handle EXCEPT ![t] = TEMP_FILE]
            /\ Continue(t, "save_write")
    /\ UNCHANGED <<clock, ret, sm, opts, calls, warnings, ncalls, loaded>>
    /\ UNCHANGED <<others, persisted>>

\* save: fs::write, second half: write_all of the serialized get_state_data()
SaveWrite(t) ==
    /\ pc[t] = "save_write"
    /\ handle' = [handle EXCEPT ![t] = "none"]
    /\ IF fault = "write"
       THEN CallErr(t, "StorageFull") /\ UNCHANGED files
       ELSE /\ files' = IF handle[t] = "unlinked" THEN files
                        ELSE [files EXCEPT ![handle[t]] =
                                 Some(Written(@[1], DataToJson(GetStateData(sm[t]))))]
            /\ Continue(t, "save_rename")
    /\ UNCHANGED <<clock, ret, sm, opts, calls, warnings, ncalls, loaded>>
    /\ UNCHANGED <<others, persisted>>

\* the rename whose failure takes the new record back out of the machine
SaveRenameRollsBack(t) ==
    /\ pc[t] = "save_rename"
    /\ IF fault = "rename" \/ ~Exists(TEMP_FILE)
       THEN /\ CallErr(t, "PermissionDenied")
            /\ sm' = [sm EXCEPT ![t] =
                         [@ EXCEPT !.transitions = SubSeq(@, 1, Len(@) - 1),
                                   !.current_state = sm[t].transitions[Len(sm[t].transitions)].from]]
            /\ UNCHANGED <<files, handle, persisted>>
       ELSE /\ files' = [files EXCEPT ![STATE_FILE] = files[TEMP_FILE], ![TEMP_FILE] = None]
            /\ handle' = AfterRename(handle)
            /\ persisted' = Some(sm[t])
            /\ CallOk(t, TRUE)
            /\ UNCHANGED sm
    /\ UNCHANGED <<clock, ret, opts, calls, warnings, ncalls, loaded>>
    /\ UNCHANGED others

\* save: fs::rename(&temp_file, &self.state_file_path)
SaveRename(t) ==
    /\ pc[t] = "save_rename"
    /\ IF fault = "rename"
       THEN /\ CallErr(t, "PermissionDenied")
            /\ UNCHANGED <<files, handle, persisted>>
       ELSE IF Exists(TEMP_FILE)
       THEN /\ files' = [files EXCEPT ![STATE_FILE] = files[TEMP_FILE], ![TEMP_FILE] = None]
            /\ handle' = AfterRename(handle)
            /\ persisted' = Some(sm[t])
            /\ CallOk(t, TRUE)
       ELSE /\ CallErr(t, "NotFound")
            /\ UNCHANGED <<files, handle, persisted>>
    /\ UNCHANGED <<clock, ret, sm, opts, calls, warnings, ncalls, loaded>>
    /\ UNCHANGED others

\* restore: if !self.state_file_path.exists() { return Ok(false) }
RestoreExists(t) ==
    /\ pc[t] = "restore_exists"
    /\ IF PathExists(STATE_FILE) THEN Continue(t, "restore_read") ELSE CallOk(t, FALSE)
    /\ UNCHANGED <<fsVars, clock, ret, sm, handle, opts, calls, warnings, ncalls, loaded>>
    /\ UNCHANGED <<others, persisted>>

\* restore: fs::read_to_string, serde_json::from_str, then the field assignments
RestoreRead(t) ==
    /\ pc[t] = "restore_read"
    /\ IF fault = "read"
       THEN CallErr(t, "PermissionDenied") /\ UNCHANGED <<sm, ncalls, loaded>>
       ELSE IF ~Exists(STATE_FILE)
       THEN CallErr(t, "NotFound") /\ UNCHANGED <<sm, ncalls, loaded>>
       ELSE IF ~Complete(Content(STATE_FILE))
       THEN CallErr(t, "InvalidData") /\ UNCHANGED <<sm, ncalls, loaded>>
       ELSE /\ sm' = [sm EXCEPT ![t] = LoadData(@, DataFromJson(Content(STATE_FILE)[1]))]
            /\ ncalls' = [ncalls EXCEPT ![t] = 0]
            /\ loaded' = [loaded EXCEPT ![t] = Len(sm'[t].transitions)]
            /\ CallOk(t, TRUE)
    /\ UNCHANGED <<fsVars, clock, ret, handle, opts, calls, warnings>>
    /\ UNCHANGED <<others, persisted>>

\* the reset at the end of clear without the three optional fields
ResetStageAndHistory(t) ==
    /\ sm' = [sm EXCEPT ![t] = [@ EXCEPT !.current_state = "Initial", !.transitions = <<>>]]
    /\ ncalls' = [ncalls EXCEPT ![t] = 0]
    /\ loaded' = [loaded EXCEPT ![t] = 0]

\* the reset of the fields at the end of clear
ResetMachine(t) ==
    /\ sm' = [sm EXCEPT ![t] = NewMachine]
    /\ ncalls' = [ncalls EXCEPT ![t] = 0]
    /\ loaded' = [loaded EXCEPT ![t] = 0]

\* clear: if self.state_file_path.exists() { ... }
ClearExists(t) ==
    /\ pc[t] = "clear_exists"
    /\ IF PathExists(STATE_FILE)
       THEN Continue(t, "clear_remove") /\ UNCHANGED <<sm, ncalls, loaded>>
       ELSE ResetMachine(t) /\ CallOk(t, TRUE)
    /\ UNCHANGED <<fsVars, clock, ret, handle, opts, calls, warnings>>
    /\ UNCHANGED <<others, persisted>>

\* clear: fs::remove_file(&self.state_file_path).await?
ClearRemove(t) ==
    /\ pc[t] = "clear_remove"
    /\ IF fault = "remove"
       THEN /\ CallErr(t, "PermissionDenied")
            /\ UNCHANGED <<files, handle, persisted, sm, ncalls, loaded>>
       ELSE IF Exists(STATE_FILE)
       THEN /\ files' = [files EXCEPT ![STATE_FILE] = None]
            /\ handle' = AfterRemove(handle)
            /\ persisted' = None
            /\ ResetMachine(t)
            /\ CallOk(t, TRUE)
       ELSE /\ CallErr(t, "NotFound")
            /\ UNCHANGED <<files, handle, persisted, sm, ncalls, loaded>>
    /\ UNCHANGED <<clock, ret, opts, calls, warnings>>
    /\ UNCHANGED others

----------------------------------------------------------------------------
(* core/retry.rs: RetryManager *)

\* Text is a sequence of characters.  Durations are counted in units of 1/8 s and the
\* backoff multiplier is a fraction <<numerator, denominator>>: on these values the
\* f64 product and Duration::from_secs_f64 are exact.

UpperCase == <<"A", "B", "C", "D", "E", "F", "G", "H", "I", "J", "K", "L", "M", "N", "O", "P", "Q", "R", "S", "T", "U", "V", "W", "X", "Y", "Z">>
LowerCase == <<"a", "b", "c", "d", "e", "f", "g", "h", "i", "j", "k", "l", "m", "n", "o", "p", "q", "r", "s", "t", "u", "v", "w", "x", "y", "z">>

\* char::to_lowercase on ASCII
LowerChar(c) ==
    IF \E k \in 1..Len(UpperCase) : UpperCase[k] = c
    THEN LowerCase[CHOOSE k \in 1..Len(UpperCase) : UpperCase[k] = c]
    ELSE c

\* str::to_lowercase
ToLowercase(text) == [i \in 1..Len(text) |-> LowerChar(text[i])]

\* str::contains
Contains(text, pattern) ==
    \E i \in 0..(Len(text) - Len(pattern)) : SubSeq(text, i + 1, i + Len(pattern)) = pattern

\* retryable_patterns of is_retryable_error
RetryablePatterns ==
    <<<<"E", "C", "O", "N", "N", "R", "E", "F", "U", "S", "E", "D">>,
      <<"E", "N", "O", "T", "F", "O", "U", "N", "D">>,
      <<"E", "T", "I", "M", "E", "D", "O", "U", "T">>,
      <<"E", "C", "O", "N", "N", "R", "E", "S", "E", "T">>,
      <<"s", "o", "c", "k", "e", "t", " ", "h", "a", "n", "g", " ", "u", "p">>,
      <<"n", "e", "t", "w", "o", "r", "k", " ", "e", "r", "r", "o", "r">>,
      <<"t", "i", "m", "e", "o", "u", "t">>,
      <<"c", "o", "n", "n", "e", "c", "t", "i", "o", "n", " ", "r", "e", "f", "u", "s", "e", "d">>,
      <<"c", "o", "n", "n", "e", "c", "t", "i", "o", "n", " ", "r", "e", "s", "e", "t">>>>

\* RetryManager::is_retryable_error on the error's to_string()
IsRetryableError(text) ==
    \E k \in 1..Len(RetryablePatterns) :
        Contains(ToLowercase(text), ToLowercase(RetryablePatterns[k]))

\* delay.as_secs_f64() * backoff_multiplier, back to a Duration
Multiply(delay, m) == (delay * m[1]) \div m[2]

Min(a, b) == IF a <= b THEN a ELSE b

\* the next delay: (delay * multiplier).min(max_delay)
NextDelay(delay, policy) == Min(Multiply(delay, policy.backoff_multiplier), policy.max_delay)

\* RetryOptions::default(): 3 attempts, 1 s, 30 s, 2.0
DefaultRetryOptions ==
    [max_attempts |-> 3, initial_delay |-> 8, max_delay |-> 240, backoff_multiplier |-> <<2, 1>>]

\* no retry call in progress
RetryIdle ==
    [pc |-> "idle", policy |-> DefaultRetryOptions, attempt |-> 0, delay |-> 0,
     last_error |-> None, invocations |-> <<>>, sleeps |-> <<>>, result |-> None]

NoRetry == rt = RetryIdle

\* the retry gives up with the error with which the operation failed just now
GiveUpEarly(error, attempt, policy) ==
    ~IsRetryableError(error.text) \/ attempt + 1 >= policy.max_attempts

GiveUpOnlyAtLimit(error, attempt, policy) ==
    attempt >= policy.max_attempts

\* the two early returns of the Err arm: not retryable, or last attempt
GiveUp(error, attempt, policy) ==
    ~IsRetryableError(error.text) \/ attempt >= policy.max_attempts

\* RetryManager::new(policy).retry(operation) up to the first invocation; with
\* max_attempts = 0 the loop body never runs and last_error.unwrap() panics
RetryCall(policy) ==
    /\ rt.pc = "idle"
    /\ rt' = [RetryIdle EXCEPT !.policy = policy,
                               !.delay = policy.initial_delay,
                               !.attempt = 1,
                               !.pc = IF policy.max_attempts >= 1 THEN "invoke" ELSE "panicked"]

\* operation().await and the match on its result
RetryInvoke(r) ==
    /\ rt.pc = "invoke"
    /\ LET n == Len(rt.invocations) + 1
           res == IF r.kind = "ok" THEN Ok(n) ELSE Err([text |-> r.msg, invocation |-> n])
           rt1 == [rt EXCEPT !.invocations = Append(@, res)]
       IN  IF res.kind = "ok"
           THEN rt' = [rt1 EXCEPT !.pc = "done", !.result = Some(res)]
           ELSE IF GiveUp(res.msg, rt.attempt, rt.policy)
           THEN rt' = [rt1 EXCEPT !.pc = "done", !.result = Some(res)]
           ELSE rt' = [rt1 EXCEPT !.pc = "sleep", !.last_error = Some(res.msg)]

\* sleep(delay).await, the next delay, and the step of the for loop
RetrySleep ==
    /\ rt.pc = "sleep"
    /\ rt' = [rt EXCEPT !.sleeps = Append(@, rt.delay),
                        !.delay = NextDelay(rt.delay, rt.policy),
                        !.attempt = @ + 1,
                        !.pc = "invoke"]

\* the caller drops the result
RetryReturn ==
    /\ rt.pc \in {"done", "panicked"}
    /\ rt' = RetryIdle

RetryPolicies ==
    [max_attempts : 0..MaxRetryAttempts,
     initial_delay : {8, 24},
     max_delay : {16, 32},
     backoff_multiplier : {<<1, 2>>, <<2, 1>>, <<3, 1>>}]

\* what the operation's error says
ErrorTexts ==
    {<<"E", "C", "O", "N", "N", "R", "E", "F", "U", "S", "E", "D">>,
     <<"T", "i", "m", "e", "O", "u", "t">>,
     <<"I", "n", "v", "a", "l", "i", "d", " ", "i", "n", "p", "u", "t">>,
     <<"n", "o", "t", " ", "f", "o", "u", "n", "d">>}

\* what one invocation of the operation returns
OperationResults == {Ok("value")} \cup {Err(text) : text \in ErrorTexts}

----------------------------------------------------------------------------
(* orchestration/package_publisher.rs: PackagePublisher::publish *)

AllRegistries == <<"npm", "crates.io", "pypi", "homebrew">>

\* PackagePublisher::merge_options_with_config
MergeOptionsWithConfig(o) ==
    IF o.registry = None /\ config.default_registry # None
    THEN [o EXCEPT !.registry = config.default_registry]
    ELSE o

\* config.publish.confirm / config.publish.verify with .unwrap_or(true)
UnwrapOrTrue(o) == IF o = None THEN TRUE ELSE o[1]

Report(t, success, registry, errors, state) ==
    [success |-> success, registry |-> registry, errors |-> errors,
     warnings |-> warnings[t], state |-> state]

\* effective_options.registry.clone().unwrap_or_else(|| detected_registries[0]...)
RegistryName(t) == IF opts[t].registry # None THEN opts[t].registry[1] ELSE detected[1]

Called(t, what) == calls' = [calls EXCEPT ![t] = @ \o what]

\* publish returns from a place outside the state machine's methods
Return(t, res) ==
    /\ Finish(t, res)
    /\ UNCHANGED <<sm, ncalls, loaded, ret>>

\* publish up to its first call of the state machine: load_config,
\* merge_options_with_config, then transition(Initial) (resume) or clear()
Start(t) ==
    /\ pc[t] = "start"
    /\ opts' = [opts EXCEPT ![t] = MergeOptionsWithConfig(@)]
    /\ IF opts[t].resume
       THEN CallTransition(t, "Initial", None, "restore")
       ELSE /\ ret' = [ret EXCEPT ![t] = "cleared"]
            /\ Continue(t, "clear_exists")
            /\ UNCHANGED <<sm, ncalls, loaded>>
    /\ UNCHANGED <<fsVars, clock, handle, calls, warnings>>
    /\ UNCHANGED <<others, persisted>>

\* resume: transition(Initial) has returned; let restored = restore().await?
CallRestore(t) ==
    /\ pc[t] = "restore"
    /\ ret' = [ret EXCEPT ![t] = "restored"]
    /\ Continue(t, "restore_exists")
    /\ UNCHANGED <<fsVars, clock, sm, handle, opts, calls, warnings, ncalls, loaded>>
    /\ UNCHANGED <<others, persisted>>

\* resume: if !restored { return Err(..) }, then transition(Detecting)
Restored(t) ==
    /\ pc[t] = "restored"
    /\ IF callres[t].value
       THEN CallTransition(t, "Detecting", None, "detect")
       ELSE Return(t, Err("State file not found or corrupted"))
    /\ UNCHANGED <<fsVars, clock, handle, opts, calls, warnings>>
    /\ UNCHANGED <<others, persisted>>

\* no resume: clear() has returned; transition(Initial)
Cleared(t) ==
    /\ pc[t] = "cleared"
    /\ CallTransition(t, "Initial", None, "initial")
    /\ UNCHANGED <<fsVars, clock, handle, opts, calls, warnings>>
    /\ UNCHANGED <<others, persisted>>

\* the same step recording Initial once more
InitializedAgain(t) ==
    /\ pc[t] = "initial"
    /\ CallTransition(t, "Initial", None, "detect")
    /\ UNCHANGED <<fsVars, clock, handle, opts, calls, warnings>>
    /\ UNCHANGED <<others, persisted>>

\* no resume: transition(Initial) has returned; transition(Detecting)
Initialized(t) ==
    /\ pc[t] = "initial"
    /\ CallTransition(t, "Detecting", None, "detect")
    /\ UNCHANGED <<fsVars, clock, handle, opts, calls, warnings>>
    /\ UNCHANGED <<others, persisted>>

\* detection whose empty answer ends the attempt with a report
DetectEmptyAsReport(t) ==
    /\ pc[t] = "detect"
    /\ IF detected = <<>>
       THEN /\ Called(t, <<"detect_plugins">>)
            /\ Return(t, Ok(Report(t, FALSE, "none", <<"No registries detected">>, "FAILED")))
       ELSE IF \A i \in 1..Len(detected) : detected[i] # RegistryName(t)
       THEN /\ Called(t, <<"detect_plugins">>)
            /\ Return(t, Err("Registry not detected"))
       ELSE /\ Called(t, <<"detect_plugins", "load_plugin">>)
            /\ Continue(t, "scan")
            /\ UNCHANGED <<sm, ncalls, loaded, ret>>
    /\ UNCHANGED <<fsVars, clock, handle, opts, warnings>>
    /\ UNCHANGED <<others, persisted>>

\* 2. detect_registries, the choice of the registry, load_plugin
Detect(t) ==
    /\ pc[t] = "detect"
    /\ IF detected = <<>>
       THEN /\ Called(t, <<"detect_plugins">>)
            /\ Return(t, Err("No registries detected"))
       ELSE IF \A i \in 1..Len(detected) : detected[i] # RegistryName(t)
       THEN /\ Called(t, <<"detect_plugins">>)
            /\ Return(t, Err("Registry not detected"))
       ELSE /\ Called(t, <<"detect_plugins", "load_plugin">>)
            /\ Continue(t, "scan")
            /\ UNCHANGED <<sm, ncalls, loaded, ret>>
    /\ UNCHANGED <<fsVars, clock, handle, opts, warnings>>
    /\ UNCHANGED <<others, persisted>>

\* the same without the return of a hooks-only attempt
AfterConfirmPublishes(t) == CallTransition(t, "Publishing", None, "publish")

\* 6./7. after the dry-run section: the confirmation, hooks-only, then transition(Publishing)
AfterConfirm(t) ==
    IF opts[t].hooks_only
    THEN Return(t, Ok(Report(t, TRUE, RegistryName(t), <<>>, "DRY_RUN")))
    ELSE CallTransition(t, "Publishing", None, "publish")

ShouldConfirm(t) ==
    ~opts[t].non_interactive /\ ~opts[t].resume /\ UnwrapOrTrue(config.confirm)

\* the same without the return of a dry-run-only attempt
AfterDryRunGoesOn(t) ==
    IF ShouldConfirm(t)
    THEN CallTransition(t, "Confirming", None, "confirm")
    ELSE AfterConfirm(t)

AfterDryRun(t) ==
    IF opts[t].dry_run
    THEN Return(t, Ok(Report(t, TRUE, RegistryName(t), <<>>, "DRY_RUN")))
    ELSE IF ShouldConfirm(t)
    THEN CallTransition(t, "Confirming", None, "confirm")
    ELSE AfterConfirm(t)

\* the security gate asking the operator in every mode
ScanAlwaysAsks(t) ==
    /\ pc[t] = "scan"
    /\ Called(t, <<"scan_project">>)
    /\ IF findings > 0
       THEN /\ warnings' = [warnings EXCEPT ![t] = Append(@, "potential secrets detected")]
            /\ Continue(t, "confirm_secrets") /\ UNCHANGED <<sm, ncalls, loaded, ret>>
       ELSE /\ UNCHANGED warnings
            /\ CallTransition(t, "Validating", None, "validate")
    /\ UNCHANGED <<fsVars, clock, handle, opts>>
    /\ UNCHANGED <<others, persisted>>

\* 3. secrets_scanner.scan_project and what follows without a prompt
Scan(t) ==
    /\ pc[t] = "scan"
    /\ Called(t, <<"scan_project">>)
    /\ IF findings > 0
       THEN /\ warnings' = [warnings EXCEPT ![t] = Append(@, "potential secrets detected")]
            /\ IF ~opts[t].non_interactive
               THEN Continue(t, "confirm_secrets") /\ UNCHANGED <<sm, ncalls, loaded, ret>>
               ELSE CallTransition(t, "Validating", None, "validate")
       ELSE /\ UNCHANGED warnings
            /\ CallTransition(t, "Validating", None, "validate")
    /\ UNCHANGED <<fsVars, clock, handle, opts>>
    /\ UNCHANGED <<others, persisted>>

\* the prompt after findings whose answer is not looked at
ConfirmSecretsGoesOn(t) ==
    /\ pc[t] = "confirm_secrets"
    /\ \E yes \in BOOLEAN :
          /\ Called(t, IF yes THEN <<"confirm">> ELSE <<"confirm", "declined">>)
          /\ CallTransition(t, "Validating", None, "validate")
    /\ UNCHANGED <<fsVars, clock, handle, opts, warnings>>
    /\ UNCHANGED <<others, persisted>>

\* 3. self.confirm("Continue with publishing?") after findings, interactive; the
\* call log keeps an answer of no
ConfirmSecrets(t) ==
    /\ pc[t] = "confirm_secrets"
    /\ \E yes \in BOOLEAN :
          /\ Called(t, IF yes THEN <<"confirm">> ELSE <<"confirm", "declined">>)
          /\ IF yes
             THEN CallTransition(t, "Validating", None, "validate")
             ELSE Return(t, Err("secrets detected"))
    /\ UNCHANGED <<fsVars, clock, handle, opts, warnings>>
    /\ UNCHANGED <<others, persisted>>

\* plugin.validate() whose verdict is not looked at
ValidateGoesOn(t) ==
    /\ pc[t] = "validate"
    /\ \E valid \in BOOLEAN :
          /\ Called(t, IF valid THEN <<"validate">> ELSE <<"validate", "invalid">>)
          /\ IF ~(opts[t].dry_run \/ opts[t].resume)
             THEN CallTransition(t, "DryRun", None, "dry_run")
             ELSE AfterDryRun(t)
    /\ UNCHANGED <<fsVars, clock, handle, opts, warnings>>
    /\ UNCHANGED <<others, persisted>>

\* 4. plugin.validate() and the decision about the dry-run; the call log keeps a
\* verdict of invalid
Validate(t) ==
    /\ pc[t] = "validate"
    /\ \E valid \in BOOLEAN :
          /\ Called(t, IF valid THEN <<"validate">> ELSE <<"validate", "invalid">>)
          /\ IF ~valid
             THEN Return(t, Err("Validation failed"))
             ELSE IF ~(opts[t].dry_run \/ opts[t].resume)
             THEN CallTransition(t, "DryRun", None, "dry_run")
             ELSE AfterDryRun(t)
    /\ UNCHANGED <<fsVars, clock, handle, opts, warnings>>
    /\ UNCHANGED <<others, persisted>>

\* plugin.dry_run() whose failure is booked as Failed before the error
DryRunBooksFailed(t) ==
    /\ pc[t] = "dry_run"
    /\ \E success \in BOOLEAN :
          /\ Called(t, IF success THEN <<"dry_run">> ELSE <<"dry_run", "failed">>)
          /\ IF ~success
             THEN /\ sm' = [sm EXCEPT ![t] = PushTransition(@, "Failed", None)]
                  /\ Finish(t, Err("Dry-run failed"))
                  /\ UNCHANGED <<ncalls, loaded, ret>>
             ELSE AfterDryRun(t)
    /\ UNCHANGED <<fsVars, clock, handle, opts, warnings>>
    /\ UNCHANGED <<others, persisted>>

\* 5. plugin.dry_run(); the call log keeps a result of failed
DryRun(t) ==
    /\ pc[t] = "dry_run"
    /\ \E success \in BOOLEAN :
          /\ Called(t, IF success THEN <<"dry_run">> ELSE <<"dry_run", "failed">>)
          /\ IF ~success
             THEN Return(t, Err("Dry-run failed"))
             ELSE AfterDryRun(t)
    /\ UNCHANGED <<fsVars, clock, handle, opts, warnings>>
    /\ UNCHANGED <<others, persisted>>

\* 6. self.confirm("Proceed with publishing?")
Confirm(t) ==
    /\ pc[t] = "confirm"
    /\ Called(t, <<"confirm">>)
    /\ \E yes \in BOOLEAN :
          IF yes
          THEN AfterConfirm(t)
          ELSE CallTransition(t, "Failed", None, "cancelled")
    /\ UNCHANGED <<fsVars, clock, handle, opts, warnings>>
    /\ UNCHANGED <<others, persisted>>

\* the cancelled attempt ending with a propagated error
CancelledAsError(t) ==
    /\ pc[t] = "cancelled"
    /\ Return(t, Err("User cancelled"))
    /\ UNCHANGED <<fsVars, clock, handle, opts, calls, warnings>>
    /\ UNCHANGED <<others, persisted>>

\* 6. transition(Failed) has returned: the report of a cancelled attempt
Cancelled(t) ==
    /\ pc[t] = "cancelled"
    /\ Return(t, Ok(Report(t, FALSE, RegistryName(t), <<"User cancelled">>, "FAILED")))
    /\ UNCHANGED <<fsVars, clock, handle, opts, calls, warnings>>
    /\ UNCHANGED <<others, persisted>>

\* plugin.publish(options) whose failure is booked as Success before the error
PublishBooksSuccess(t) ==
    /\ pc[t] = "publish"
    /\ Called(t, <<"publish">>)
    /\ \E success \in BOOLEAN :
          IF ~success
          THEN /\ sm' = [sm EXCEPT ![t] = PushTransition(@, "Success", None)]
               /\ Finish(t, Err("Publishing failed"))
               /\ UNCHANGED <<ncalls, loaded, ret>>
          ELSE IF UnwrapOrTrue(config.verify)
          THEN CallTransition(t, "Verifying", None, "verify")
          ELSE CallTransition(t, "Success", None, "success")
    /\ UNCHANGED <<fsVars, clock, handle, opts, warnings>>
    /\ UNCHANGED <<others, persisted>>

\* plugin.publish(options) submitted again after a failure
PublishAgain(t) ==
    /\ pc[t] = "publish"
    /\ Called(t, <<"publish">>)
    /\ \E success \in BOOLEAN :
          IF ~success
          THEN Continue(t, "publish") /\ UNCHANGED <<sm, ncalls, loaded, ret>>
          ELSE IF UnwrapOrTrue(config.verify)
          THEN CallTransition(t, "Verifying", None, "verify")
          ELSE CallTransition(t, "Success", None, "success")
    /\ UNCHANGED <<fsVars, clock, handle, opts, warnings>>
    /\ UNCHANGED <<others, persisted>>

\* 7. plugin.publish(options)
Publish(t) ==
    /\ pc[t] = "publish"
    /\ Called(t, <<"publish">>)
    /\ \E success \in BOOLEAN :
          IF ~success
          THEN Return(t, Err("Publishing failed"))
          ELSE IF UnwrapOrTrue(config.verify)
          THEN CallTransition(t, "Verifying", None, "verify")
          ELSE CallTransition(t, "Success", None, "success")
    /\ UNCHANGED <<fsVars, clock, handle, opts, warnings>>
    /\ UNCHANGED <<others, persisted>>

\* plugin.verify() with its error propagated
VerifyStrict(t) ==
    /\ pc[t] = "verify"
    /\ Called(t, <<"verify">>)
    /\ \E answer \in {"verified", "not verified", "error"} :
          IF answer = "error"
          THEN Return(t, Err("Verification error")) /\ UNCHANGED warnings
          ELSE /\ warnings' = [warnings EXCEPT ![t] =
                      IF answer = "verified" THEN @ ELSE Append(@, "Verification failed")]
               /\ CallTransition(t, "Success", None, "success")
    /\ UNCHANGED <<fsVars, clock, handle, opts>>
    /\ UNCHANGED <<others, persisted>>

\* 8. plugin.verify(): every answer other than verified becomes a warning
Verify(t) ==
    /\ pc[t] = "verify"
    /\ Called(t, <<"verify">>)
    /\ \E answer \in {"verified", "not verified", "error"} :
          warnings' = [warnings EXCEPT ![t] =
              CASE answer = "verified"     -> @
                [] answer = "not verified" -> Append(@, "Verification failed")
                [] answer = "error"        -> Append(@, "Verification error")]
    /\ CallTransition(t, "Success", None, "success")
    /\ UNCHANGED <<fsVars, clock, handle, opts>>
    /\ UNCHANGED <<others, persisted>>

\* transition(Success) has returned: the final report
Succeeded(t) ==
    /\ pc[t] = "success"
    /\ Return(t, Ok(Report(t, TRUE, RegistryName(t), <<>>, "SUCCESS")))
    /\ UNCHANGED <<fsVars, clock, handle, opts, calls, warnings>>
    /\ UNCHANGED <<others, persisted>>

\* the steps of one publish call (batch: never interactive)
PublishStep(t) ==
    \/ Start(t) \/ CallRestore(t) \/ Restored(t) \/ Cleared(t) \/ Initialized(t)
    \/ SaveCreate(t) \/ SaveWrite(t) \/ SaveRename(t)
    \/ RestoreExists(t) \/ RestoreRead(t) \/ ClearExists(t) \/ ClearRemove(t)
    \/ Detect(t) \/ Scan(t) \/ Validate(t) \/ DryRun(t) \/ Publish(t) \/ Verify(t)
    \/ Succeeded(t)

\* the steps that only an interactive publish call takes
InteractiveStep(t) == ConfirmSecrets(t) \/ Confirm(t) \/ Cancelled(t)

----------------------------------------------------------------------------
(* orchestration/batch_publisher.rs: BatchPublisher *)

EmptyMap == [k \in {} |-> None]

\* BatchPublishResult as publish_to_multiple initializes it
EmptyResult ==
    [succeeded |-> <<>>, failed |-> EmptyMap, skipped |-> <<>>,
     success |-> FALSE, results |-> EmptyMap]

\* HashMap::insert
Insert(map, key, value) == (key :> value) @@ map

\* the error report built for an Err(e) of publish_single_registry
ErrorReport(registry, msg) ==
    [success |-> FALSE, registry |-> registry, errors |-> <<msg>>,
     warnings |-> <<>>, state |-> "FAILED"]

\* report.errors.first().cloned().unwrap_or_else(|| "Unknown error")
FirstError(report) == IF report.errors = <<>> THEN "Unknown error" ELSE report.errors[1]

\* the match on the Result of one registry, the same in publish_to_registry and
\* in the collecting loop of publish_in_parallel
Record(res, registry, r) ==
    IF r.kind = "ok"
    THEN IF r.value.success
         THEN [res EXCEPT !.succeeded = Append(@, registry),
                          !.results = Insert(@, registry, r.value)]
         ELSE [res EXCEPT !.failed = Insert(@, registry, FirstError(r.value)),
                          !.results = Insert(@, registry, r.value)]
    ELSE [res EXCEPT !.failed = Insert(@, registry, r.msg),
                     !.results = Insert(@, registry, ErrorReport(registry, r.msg))]

\* the overall flag set without a look at the sets
FinalizeAlways(res) == [res EXCEPT !.success = TRUE]

\* result.success = result.failed.is_empty() && result.skipped.is_empty()
Finalize(res) ==
    [res EXCEPT !.success = (DOMAIN res.failed = {}) /\ (res.skipped = <<>>)]

\* the same test with the flag the wrong way round
StopOnErrorInverted(res) == DOMAIN res.failed # {} /\ bopts.continue_on_error

\* if !result.failed.is_empty() && !options.continue_on_error
StopOnError(res) == DOMAIN res.failed # {} /\ ~bopts.continue_on_error

\* the options of the caller with only the registry set
BatchOptionsAsGiven(registry) ==
    [bopts.publish_options EXCEPT !.registry = Some(registry)]

\* publish_single_registry: the options of the publish call for `registry`
BatchOptions(registry) ==
    [bopts.publish_options EXCEPT !.non_interactive = TRUE, !.registry = Some(registry)]

\* publish_to_multiple without the validation of its input
BatchStartUnchecked ==
    /\ bpc = "entry"
    /\ result' = EmptyResult
    /\ idx' = 1
    /\ IF bopts.sequential
       THEN bpc' = "sequential" /\ UNCHANGED sem
       ELSE bpc' = "spawn" /\ sem' = bopts.max_concurrency
    /\ UNCHANGED <<fsVars, clock, procVars, envVars, registries, bopts, ghostVars>>

\* publish_to_multiple up to the first loop
BatchStart ==
    /\ bpc = "entry"
    /\ IF registries = <<>>
       THEN bpc' = "rejected" /\ UNCHANGED <<sem, idx, result>>
       ELSE /\ result' = EmptyResult
            /\ idx' = 1
            /\ IF bopts.sequential
               THEN bpc' = "sequential" /\ UNCHANGED sem
               ELSE bpc' = "spawn" /\ sem' = bopts.max_concurrency
    /\ UNCHANGED <<fsVars, clock, procVars, envVars, registries, bopts, ghostVars>>

\* leaving a loop of the batch for the end of publish_to_multiple
LoopEnd(res, last) ==
    IF last
    THEN result' = Finalize(res) /\ bpc' = "returned" /\ UNCHANGED idx
    ELSE result' = res /\ idx' = idx + 1 /\ UNCHANGED bpc

\* publish_sequentially: one iteration that skips its registry
SeqSkip ==
    /\ bpc = "sequential"
    /\ StopOnError(result)
    /\ LoopEnd([result EXCEPT !.skipped = Append(@, registries[idx])],
               idx = Len(registries))
    /\ UNCHANGED <<fsVars, clock, procVars, envVars, registries, bopts, sem, ghostVars>>

\* publish_sequentially: one iteration calls publish_to_registry
SeqCall ==
    /\ bpc = "sequential"
    /\ ~StopOnError(result)
    /\ pc[idx] = "idle"
    /\ pc' = [pc EXCEPT ![idx] = "start"]
    /\ opts' = [opts EXCEPT ![idx] = BatchOptions(registries[idx])]
    /\ UNCHANGED <<fsVars, clock, ret, sm, handle, callres, outcome, calls, warnings,
                   permit, ncalls, loaded, envVars, batchVars, ghostVars>>

\* publish_to_registry: publish_single_registry has returned
SeqRecord ==
    /\ bpc = "sequential"
    /\ pc[idx] = "done"
    /\ LoopEnd(Record(result, registries[idx], outcome[idx][1]), idx = Len(registries))
    /\ UNCHANGED <<fsVars, clock, pc, ret, sm, handle, opts, callres, outcome, calls, warnings,
                   permit, ncalls, loaded, envVars, registries, bopts, sem, ghostVars>>

\* publish_in_parallel: one iteration of the loop of tokio::spawn
Spawn ==
    /\ bpc = "spawn"
    /\ pc' = [pc EXCEPT ![idx] = "acquire"]
    /\ IF idx = Len(registries)
       THEN bpc' = "collect" /\ idx' = 1
       ELSE idx' = idx + 1 /\ UNCHANGED bpc
    /\ UNCHANGED <<fsVars, clock, ret, sm, handle, opts, callres, outcome, calls, warnings,
                   permit, ncalls, loaded, envVars, registries, bopts, sem, result, ghostVars>>

\* the spawned task without the wait for a permit
AcquireNoWait(t) ==
    /\ pc[t] = "acquire"
    /\ sem' = sem - 1
    /\ permit' = [permit EXCEPT ![t] = TRUE]
    /\ pc' = [pc EXCEPT ![t] = "start"]
    /\ opts' = [opts EXCEPT ![t] = BatchOptions(registries[t])]
    /\ UNCHANGED <<fsVars, clock, ret, sm, handle, callres, outcome, calls, warnings, ncalls, loaded, envVars, registries, bopts, bpc, idx, result, ghostVars>>

\* the spawned task: semaphore.acquire().await, then publish_single_registry
Acquire(t) ==
    /\ pc[t] = "acquire"
    /\ sem > 0
    /\ sem' = sem - 1
    /\ permit' = [permit EXCEPT ![t] = TRUE]
    /\ pc' = [pc EXCEPT ![t] = "start"]
    /\ opts' = [opts EXCEPT ![t] = BatchOptions(registries[t])]
    /\ UNCHANGED <<fsVars, clock, ret, sm, handle, callres, outcome, calls, warnings, ncalls, loaded, envVars, registries, bopts, bpc, idx, result, ghostVars>>

\* publish_in_parallel: task.await of the next handle returns, its match, and the
\* break; the handles not yet awaited are dropped, which detaches their tasks
Collect ==
    /\ bpc = "collect"
    /\ pc[idx] = "done"
    /\ LET res == Record(result, registries[idx], outcome[idx][1])
       IN  LoopEnd(res, StopOnError(res) \/ idx = Len(registries))
    /\ UNCHANGED <<fsVars, clock, pc, ret, sm, handle, opts, callres, outcome, calls, warnings,
                   permit, ncalls, loaded, envVars, registries, bopts, sem, ghostVars>>

----------------------------------------------------------------------------
(* A batch run: publish_to_multiple(registries, bopts) in one project *)

\* the project layouts: what detect_plugins reports, in declaration order
Projects == {SubSeq(AllRegistries, 1, n) : n \in 0..MaxRegs}

\* PublishConfig as far as publish reads it
Configs ==
    [default_registry : {None, Some("crates.io")},
     confirm : {None, Some(FALSE)},
     verify : {None, Some(FALSE)}]

\* no configuration file: ConfigLoader's defaults as far as publish reads them
DefaultConfig == [default_registry |-> None, confirm |-> None, verify |-> None]

PublishOptions ==
    [registry : {None, Some("npm"), Some("crates.io")},
     dry_run : BOOLEAN, non_interactive : BOOLEAN, resume : BOOLEAN, hooks_only : BOOLEAN]

DefaultOptions ==
    [registry |-> None, dry_run |-> FALSE, non_interactive |-> FALSE,
     resume |-> FALSE, hooks_only |-> FALSE]

\* the per-attempt options a batch is run with (publish_batch_command: registry None)
BatchPublishOptions ==
    {DefaultOptions,
     [DefaultOptions EXCEPT !.dry_run = TRUE],
     [DefaultOptions EXCEPT !.resume = TRUE],
     [DefaultOptions EXCEPT !.hooks_only = TRUE, !.non_interactive = TRUE]}

InitProcs(n) ==
    /\ pc = [t \in 1..n |-> "idle"]
    /\ ret = [t \in 1..n |-> "none"]
    /\ sm = [t \in 1..n |-> NewMachine]
    /\ handle = [t \in 1..n |-> "none"]
    /\ opts = [t \in 1..n |-> DefaultOptions]
    /\ callres = [t \in 1..n |-> Ok(TRUE)]
    /\ outcome = [t \in 1..n |-> None]
    /\ calls = [t \in 1..n |-> <<>>]
    /\ warnings = [t \in 1..n |-> <<>>]
    /\ permit = [t \in 1..n |-> FALSE]
    /\ ncalls = [t \in 1..n |-> 0]
    /\ loaded = [t \in 1..n |-> 0]

InitGhosts ==
    /\ startDoc = None
    /\ persisted = None
    /\ attempts = 0

\* a project directory without state file
InitFiles ==
    /\ files = [name \in {STATE_FILE, TEMP_FILE} |-> None]
    /\ clock = 0

Init ==
    /\ registries \in {SubSeq(AllRegistries, 1, n) : n \in 0..MaxRegs}
    /\ bopts \in [sequential : BOOLEAN, continue_on_error : BOOLEAN,
                   max_concurrency : 0..MaxConc, publish_options : BatchPublishOptions]
    /\ bopts.sequential => bopts.max_concurrency = MaxConc
    /\ detected \in {p \in Projects : Len(p) >= MaxRegs - 1}
    /\ findings \in {0, 1}
    /\ config = DefaultConfig
    /\ InitProcs(Len(registries))
    /\ InitFiles
    /\ InitGhosts
    /\ NoRetry
    /\ NoFault
    /\ sem = 0
    /\ bpc = "entry"
    /\ idx = 0
    /\ result = EmptyResult

Next ==
    \/ BatchStart \/ SeqSkip \/ SeqCall \/ SeqRecord \/ Spawn \/ Collect
    \/ \E t \in Procs : Acquire(t)
    \/ \E t \in Procs : PublishStep(t)

Spec == Init /\ [][Next]_vars

\* the tokio runtime keeps polling: publish_to_multiple goes on whenever it can, and
\* so does every spawned task (a task waiting for a permit is woken when one is free)
Fairness ==
    /\ WF_vars(BatchStart \/ SeqSkip \/ SeqCall \/ SeqRecord \/ Spawn \/ Collect)
    /\ \A t \in 1..MaxRegs : WF_vars(t \in Procs /\ (Acquire(t) \/ PublishStep(t)))

SpecLive == Spec /\ Fairness

----------------------------------------------------------------------------
(* Single-target attempts: PackagePublisher::new(project).publish(options), one  *)
(* call after the other in the same project; a call may be interrupted anywhere  *)

NoBatch ==
    /\ registries = <<>>
    /\ bopts = [sequential |-> FALSE, continue_on_error |-> FALSE,
                max_concurrency |-> 0, publish_options |-> DefaultOptions]
    /\ sem = 0
    /\ bpc = "none"
    /\ idx = 0
    /\ result = EmptyResult

\* PackagePublisher::new and the call of publish(o)
BeginAttempt(t) ==
    /\ pc[t] \in {"idle", "done", "crashed"}
    /\ attempts < MaxAttempts
    /\ attempts' = attempts + 1
    /\ startDoc' = files[STATE_FILE]
    /\ \E o \in PublishOptions : opts' = [opts EXCEPT ![t] = o]
    /\ pc' = [pc EXCEPT ![t] = "start"]
    /\ ret' = [ret EXCEPT ![t] = "none"]
    /\ sm' = [sm EXCEPT ![t] = NewMachine]
    /\ callres' = [callres EXCEPT ![t] = Ok(TRUE)]
    /\ outcome' = [outcome EXCEPT ![t] = None]
    /\ calls' = [calls EXCEPT ![t] = <<>>]
    /\ warnings' = [warnings EXCEPT ![t] = <<>>]
    /\ ncalls' = [ncalls EXCEPT ![t] = 0]
    /\ loaded' = [loaded EXCEPT ![t] = 0]
    /\ UNCHANGED <<fsVars, clock, handle, permit, persisted, envVars, batchVars>>

\* the process is killed inside publish: its memory is lost, the files stay
Crash(t) ==
    /\ Running(t)
    /\ pc' = [pc EXCEPT ![t] = "crashed"]
    /\ handle' = [handle EXCEPT ![t] = "none"]
    /\ UNCHANGED <<fsVars, clock, ret, sm, opts, callres, outcome, calls, warnings, permit,
                   ncalls, loaded, ghostVars, envVars, batchVars>>

InitPublish ==
    /\ NoBatch
    /\ detected \in Projects
    /\ findings \in {0, 1}
    /\ config \in Configs
    /\ InitProcs(1)
    /\ InitFiles
    /\ InitGhosts
    /\ NoRetry
    /\ NoFault

NextPublish ==
    \/ \E t \in Procs : BeginAttempt(t)
    \/ \E t \in Procs : Crash(t)
    \/ \E t \in Procs : PublishStep(t)
    \/ \E t \in Procs : InteractiveStep(t)

SpecPublish == InitPublish /\ [][NextPublish]_vars

----------------------------------------------------------------------------
(* The state machine on its own: any sequence of transition, restore and clear  *)
(* on one PublishStateMachine; after a crash a new machine works on the storage *)

\* metadata arguments of transition
Metadata ==
    {None,
     Some([registry |-> Str("npm")]),
     Some([version |-> Num(1), error |-> Str("timeout")])}

ApiTransition(t) ==
    /\ pc[t] = "api"
    /\ Len(sm[t].transitions) < MaxApiCalls
    /\ \E to \in PublishState, metadata \in Metadata : CallTransition(t, to, metadata, "api")
    /\ UNCHANGED <<fsVars, clock, handle, opts, calls, warnings>>
    /\ UNCHANGED <<others, persisted>>

ApiRestore(t) ==
    /\ pc[t] = "api"
    /\ Continue(t, "restore_exists")
    /\ UNCHANGED <<fsVars, clock, ret, sm, handle, opts, calls, warnings, ncalls, loaded>>
    /\ UNCHANGED <<others, persisted>>

ApiClear(t) ==
    /\ pc[t] = "api"
    /\ Continue(t, "clear_exists")
    /\ UNCHANGED <<fsVars, clock, ret, sm, handle, opts, calls, warnings, ncalls, loaded>>
    /\ UNCHANGED <<others, persisted>>

\* the process is killed, and PublishStateMachine::new in a new process
CrashAndNew(t) ==
    /\ attempts < MaxCrashes
    /\ attempts' = attempts + 1
    /\ pc' = [pc EXCEPT ![t] = "api"]
    /\ sm' = [sm EXCEPT ![t] = NewMachine]
    /\ handle' = [handle EXCEPT ![t] = "none"]
    /\ callres' = [callres EXCEPT ![t] = Ok(TRUE)]
    /\ ncalls' = [ncalls EXCEPT ![t] = 0]
    /\ loaded' = [loaded EXCEPT ![t] = 0]
    /\ UNCHANGED <<fsVars, clock, ret, opts, outcome, calls, warnings, permit,
                   startDoc, persisted, envVars, batchVars>>

Tick ==
    /\ clock < MaxClock
    /\ clock' = clock + 1
    /\ UNCHANGED <<fsVars, procVars, ghostVars, envVars, batchVars>>

InitMachine ==
    /\ NoBatch
    /\ detected = <<>>
    /\ findings = 0
    /\ config = DefaultConfig
    /\ InitProcs(1)
    /\ InitFiles
    /\ InitGhosts
    /\ NoRetry
    /\ NoFault

StartApi(t) ==
    /\ pc[t] = "idle"
    /\ pc' = [pc EXCEPT ![t] = "api"]
    /\ ret' = [ret EXCEPT ![t] = "api"]
    /\ UNCHANGED <<fsVars, clock, sm, handle, opts, callres, outcome, calls, warnings,
                   permit, ncalls, loaded, ghostVars, envVars, batchVars>>

NextMachine ==
    \/ Tick
    \/ \E t \in Procs : StartApi(t)
    \/ \E t \in Procs : ApiTransition(t)
    \/ \E t \in Procs : ApiRestore(t)
    \/ \E t \in Procs : ApiClear(t)
    \/ \E t \in Procs : CrashAndNew(t)
    \/ \E t \in Procs : SaveCreate(t)
    \/ \E t \in Procs : SaveWrite(t)
    \/ \E t \in Procs : SaveRename(t)
    \/ \E t \in Procs : RestoreExists(t)
    \/ \E t \in Procs : RestoreRead(t)
    \/ \E t \in Procs : ClearExists(t)
    \/ \E t \in Procs : ClearRemove(t)

SpecMachine == InitMachine /\ [][NextMachine]_vars

----------------------------------------------------------------------------
(* One retry call after the other, any policy, any behaviour of the operation *)

RetryUnchanged ==
    UNCHANGED <<files, clock, procVars, ghostVars, detected, findings, config, batchVars,
                fault>>

InitRetry ==
    /\ NoBatch
    /\ detected = <<>>
    /\ findings = 0
    /\ config = DefaultConfig
    /\ InitProcs(0)
    /\ InitFiles
    /\ InitGhosts
    /\ NoRetry
    /\ NoFault

NextRetry ==
    \/ \E policy \in RetryPolicies : RetryCall(policy) /\ RetryUnchanged
    \/ \E r \in OperationResults : RetryInvoke(r) /\ RetryUnchanged
    \/ RetrySleep /\ RetryUnchanged
    \/ RetryReturn /\ RetryUnchanged

SpecRetry == InitRetry /\ [][NextRetry]_vars

----------------------------------------------------------------------------
(* The state machine on a storage that fails: any sequence of transition, restore *)
(* and clear in a project directory where one kind of file operation fails, from  *)
(* the beginning or from some moment on                                           *)

\* the storage begins to fail one kind of file operation
StorageBreaks ==
    /\ fault = "none"
    /\ \E k \in StorageFaults : fault' = k
    /\ UNCHANGED <<fsVars, clock, procVars, ghostVars, detected, findings, config, rt,
                   batchVars>>

\* a project directory without state file, or with a state file cut short
InitStorage ==
    /\ NoBatch
    /\ detected = <<>>
    /\ findings = 0
    /\ config = DefaultConfig
    /\ InitProcs(1)
    /\ files \in {[name \in {STATE_FILE, TEMP_FILE} |-> None],
                  [name \in {STATE_FILE, TEMP_FILE} |->
                      IF name = STATE_FILE THEN Some(Incomplete) ELSE None]}
    /\ clock = 0
    /\ InitGhosts
    /\ NoRetry
    /\ fault \in StorageFaults \cup {"none"}

NextStorage ==
    \/ StorageBreaks
    \/ \E t \in Procs : StartApi(t)
    \/ \E t \in Procs : ApiTransition(t)
    \/ \E t \in Procs : ApiRestore(t)
    \/ \E t \in Procs : ApiClear(t)
    \/ \E t \in Procs : SaveCreate(t)
    \/ \E t \in Procs : SaveWrite(t)
    \/ \E t \in Procs : SaveRename(t)
    \/ \E t \in Procs : RestoreExists(t)
    \/ \E t \in Procs : RestoreRead(t)
    \/ \E t \in Procs : ClearExists(t)
    \/ \E t \in Procs : ClearRemove(t)

SpecStorage == InitStorage /\ [][NextStorage]_vars

----------------------------------------------------------------------------
(* Properties of a batch run *)

Concurrent == bpc \notin {"entry", "rejected"} /\ ~bopts.sequential
Sequential == bpc \notin {"entry", "rejected"} /\ bopts.sequential
Returned   == bpc = "returned"

\* the single-target attempt of t is in flight: permit held, publish running
InFlight == {t \in Procs : permit[t] /\ Running(t)}

InSeq(x, seq) == \E i \in 1..Len(seq) : seq[i] = x

Succeeded_(r) == InSeq(r, result.succeeded)
Failed_(r)    == r \in DOMAIN result.failed
Skipped_(r)   == InSeq(r, result.skipped)

\* C1: in concurrent batch mode the number of registries whose attempt is in flight
\* (permit held, publish running) never exceeds max_concurrency, and nobody runs
\* publish without a permit
C1_InFlightBounded ==
    Concurrent =>
        /\ Cardinality(InFlight) <= bopts.max_concurrency
        /\ \A t \in Procs : Running(t) => permit[t]

\* C1 witness: the cap is reached while another task waits for a permit
C1_Witness ==
    /\ Concurrent
    /\ bopts.max_concurrency >= 1
    /\ Cardinality(InFlight) = bopts.max_concurrency
    /\ \E t \in Procs : pc[t] = "acquire"

\* C2: sequential, continue-on-error = false: once a registry is in failed, every
\* registry after it in the list is never attempted and is in neither succeeded nor
\* failed; when the batch returns each of them is in skipped and success is false
C2_SkipAfterFailure ==
    (Sequential /\ ~bopts.continue_on_error) =>
        \A i, j \in Procs :
            (i < j /\ Failed_(registries[i])) =>
                /\ pc[j] = "idle"
                /\ calls[j] = <<>>
                /\ ~Succeeded_(registries[j])
                /\ ~Failed_(registries[j])
                /\ Returned => (Skipped_(registries[j]) /\ ~result.success)

\* C2 witness: [npm, crates.io], npm failed, crates.io skipped, batch returned
C2_Witness ==
    /\ Sequential /\ ~bopts.continue_on_error /\ Returned
    /\ Len(registries) = 2
    /\ Failed_(registries[1])
    /\ result.skipped = <<registries[2]>>

\* C3: concurrent, continue-on-error = false: when publish_to_multiple returns, every
\* task that had started by then has run to completion and its registry is in
\* succeeded or failed and in the per-registry outcome map
C3_LaunchedAreRecorded ==
    [][(Concurrent /\ ~bopts.continue_on_error /\ ~Returned /\ bpc' = "returned") =>
          \A t \in Procs : Running(t) \/ pc[t] = "done" =>
              /\ pc'[t] = "done"
              /\ InSeq(registries[t], result'.succeeded)
                    \/ registries[t] \in DOMAIN result'.failed
              /\ registries[t] \in DOMAIN result'.results]_vars

\* C4: concurrent, continue-on-error = false: once the batch has a failed registry,
\* no task that is still waiting for its permit starts
C4_NoDispatchAfterFailure ==
    [][\A t \in Procs :
          (Concurrent /\ ~bopts.continue_on_error /\ DOMAIN result.failed # {}
              /\ pc[t] = "acquire") => pc'[t] = "acquire"]_vars

\* the attempt of t was made and returned this
AttemptOk(t)   == outcome[t] # None /\ outcome[t][1].kind = "ok" /\ outcome[t][1].value.success
AttemptFail(t) == outcome[t] # None /\ ~(outcome[t][1].kind = "ok" /\ outcome[t][1].value.success)
NeverAttempted(t) == pc[t] \in {"idle", "acquire"}

Count(b) == IF b THEN 1 ELSE 0

ExactlyOneSet ==
    \A t \in Procs :
        LET r == registries[t] IN
        /\ Count(Succeeded_(r)) + Count(Failed_(r)) + Count(Skipped_(r)) = 1
        /\ Succeeded_(r) <=> AttemptOk(t)
        /\ Failed_(r) <=> AttemptFail(t)
        /\ Skipped_(r) <=> NeverAttempted(t)

\* C5: when publish_to_multiple returns, every requested registry is in exactly one
\* of succeeded, failed, skipped: succeeded iff its attempt returned success, failed
\* iff its attempt returned an error or success = false, skipped iff never attempted
C5_ExactlyOneSet ==
    [][(~Returned /\ bpc' = "returned") => ExactlyOneSet']_vars

BackendErrors ==
    {"No registries detected", "Registry not detected", "Validation failed",
     "Dry-run failed", "Publishing failed"}

\* a collaborator of t (locator or backend) reported a failure
BackendFailed(t) ==
    outcome[t] # None /\ outcome[t][1].kind = "err" /\ outcome[t][1].msg \in BackendErrors

\* C6: a concurrent batch in which every backend call of every registry succeeds
\* ends with every registry in succeeded, failed and skipped empty, success true
C6_AllSucceed ==
    (Concurrent /\ Returned /\ \A t \in Procs : pc[t] = "done" /\ ~BackendFailed(t)) =>
        /\ \A t \in Procs : Succeeded_(registries[t])
        /\ DOMAIN result.failed = {}
        /\ result.skipped = <<>>
        /\ result.success

\* C8: at every moment the state file is absent or holds one complete snapshot
C8_NoPartialSnapshot ==
    Exists(STATE_FILE) => Complete(Content(STATE_FILE))

----------------------------------------------------------------------------
(* Properties of the state machine on its own *)

\* the document in the state file
StateDoc == DataFromJson(Content(STATE_FILE)[1])

\* C7: after any sequence of transition calls on a fresh state machine the persisted
\* transition list has as many entries as calls were made; and what restore() loads,
\* also in a new machine after a crash, is the stage and the transition list the
\* machine had in memory at the last successful persist
C7_PersistRestoreRoundTrip ==
    \A t \in Procs :
        /\ (pc[t] = "api" /\ loaded[t] = 0 /\ ncalls[t] > 0) =>
              /\ Exists(STATE_FILE) /\ Complete(Content(STATE_FILE))
              /\ Len(StateDoc.transitions) = ncalls[t]
        /\ (pc[t] = "api" /\ loaded[t] > 0 /\ ncalls[t] = 0) =>
              /\ persisted # None
              /\ sm[t].current_state = persisted[1].current_state
              /\ sm[t].transitions = persisted[1].transitions

\* C7 witness: after a crash a new machine has restored two transitions, the first
\* of them with metadata
C7_Witness ==
    /\ attempts > 0
    /\ pc[1] = "api" /\ loaded[1] = 2 /\ ncalls[1] = 0
    /\ sm[1].current_state = "Publishing"
    /\ sm[1].transitions[1].metadata # None
    /\ sm[1].transitions[2].timestamp > sm[1].transitions[1].timestamp

----------------------------------------------------------------------------
(* Properties of a single-target attempt *)

\* C9: an attempt with resume requested and no state file from a prior attempt asks
\* nobody for detection, records no Detecting transition and returns the error of
\* the resume branch
C9_ResumeWithoutState ==
    \A t \in Procs :
        (opts[t].resume /\ startDoc = None /\ pc[t] \notin {"idle", "start"}) =>
            /\ ~InSeq("detect_plugins", calls[t])
            /\ \A i \in 1..Len(sm[t].transitions) : sm[t].transitions[i].to # "Detecting"
            /\ pc[t] = "done" => outcome[t] = Some(Err("State file not found or corrupted"))

\* C10: an attempt with resume requested and a snapshot on disk holds, after its
\* start step, the stage, registry, version and transition list of that snapshot
C10_ResumeKeepsSnapshot ==
    \A t \in Procs :
        (opts[t].resume /\ startDoc # None /\ Complete(startDoc[1]) /\ pc[t] = "restored") =>
            LET d == DataFromJson(startDoc[1][1]) IN
            /\ callres[t] = Ok(TRUE)
            /\ sm[t].current_state = d.current_state
            /\ sm[t].registry = d.registry
            /\ sm[t].version = d.version
            /\ sm[t].transitions = d.transitions

\* the stage of the snapshot that was on disk when the publish call began
StartStage == DataFromJson(startDoc[1][1]).current_state

\* C11: an attempt with resume requested whose persisted snapshot is at stage
\* Initial, Success or Failed is rejected: it returns an error and never invokes
\* the backend's publish method
C11_NoResumeFromTerminal ==
    \A t \in Procs :
        (opts[t].resume /\ startDoc # None /\ Complete(startDoc[1])
            /\ pc[t] \notin {"idle", "start"}
            /\ StartStage \in {"Initial", "Success", "Failed"}) =>
            /\ ~InSeq("publish", calls[t])
            /\ pc[t] = "done" => outcome[t][1].kind = "err"

----------------------------------------------------------------------------
(* Further properties of the state machine on its own *)

NotResumable == {"Initial", "Success", "Failed"}

\* C12: in every reachable state of the machine can_resume() is false exactly in the
\* stages Initial, Success and Failed, and the canResume flag of every persisted
\* snapshot is can_resume() of the stage that snapshot records
C12_CanResumeIffNotTerminal ==
    /\ \A t \in Procs :
          /\ CanResume(sm[t]) <=> sm[t].current_state \notin NotResumable
          /\ GetStateData(sm[t]).can_resume <=> sm[t].current_state \notin NotResumable
    /\ \A name \in DOMAIN files :
          (Exists(name) /\ Complete(Content(name))) =>
              LET j == Content(name)[1]
              IN  j.canResume <=> StateFromJson(j.currentState) \notin NotResumable

\* C12 witness: a snapshot with canResume = true is on disk while the machine, after
\* a restore and a further transition, is in a stage that cannot be resumed
C12_Witness ==
    /\ pc[1] = "save_rename"
    /\ loaded[1] = 1 /\ ncalls[1] = 1
    /\ ~CanResume(sm[1])
    /\ Exists(STATE_FILE) /\ Complete(Content(STATE_FILE))
    /\ Content(STATE_FILE)[1].canResume
    /\ Exists(TEMP_FILE) /\ Complete(Content(TEMP_FILE))
    /\ ~Content(TEMP_FILE)[1].canResume

----------------------------------------------------------------------------
(* Properties of a retry call *)

\* the invocation failed with an error that matches a transient marker
RetryableFailure(res) == res.kind = "err" /\ IsRetryableError(res.msg.text)

\* the invocation failed with an error that matches no transient marker
FatalFailure(res) == res.kind = "err" /\ ~IsRetryableError(res.msg.text)

\* C14: with max_attempts >= 1, an operation that fails retryably N times and then
\* succeeds makes retry return that success after exactly N+1 invocations when
\* N+1 <= max_attempts; when the failures go on, retry returns the error of the
\* last invocation after exactly max_attempts invocations
C14_RetryCounts ==
    rt.policy.max_attempts >= 1 =>
        LET inv == rt.invocations
            m   == Len(inv)
        IN  /\ m <= rt.policy.max_attempts
            /\ \A i \in 1..(m - 1) : RetryableFailure(inv[i])
            /\ (m >= 1 /\ inv[m].kind = "ok") =>
                  (rt.pc = "done" /\ rt.result = Some(inv[m]))
            /\ (m >= 1 /\ RetryableFailure(inv[m]) /\ m < rt.policy.max_attempts) =>
                  (rt.pc \in {"sleep", "invoke"} /\ rt.result = None)
            /\ (m >= 1 /\ RetryableFailure(inv[m]) /\ m = rt.policy.max_attempts) =>
                  (rt.pc = "done" /\ rt.result = Some(inv[m]))

\* C14 witness: two retryable failures, then success on the third of three attempts
C14_Witness ==
    /\ rt.pc = "done" /\ rt.policy.max_attempts = 3
    /\ Len(rt.invocations) = 3
    /\ RetryableFailure(rt.invocations[1]) /\ RetryableFailure(rt.invocations[2])
    /\ rt.result = Some(Ok(3))

\* C15: a failure that matches no transient marker is returned at once: it is the
\* last invocation (the only one if it is the first failure), retry returns its
\* error, and no sleep follows it
C15_NonRetryableReturnsAtOnce ==
    LET inv == rt.invocations
        m   == Len(inv)
    IN  \A i \in 1..m :
            FatalFailure(inv[i]) =>
                /\ i = m
                /\ rt.pc = "done"
                /\ rt.result = Some(inv[i])
                /\ Len(rt.sleeps) = m - 1

\* C15 witness: max_attempts = 3 and the first invocation fails with an error that
\* matches no marker
C15_Witness ==
    /\ rt.pc = "done" /\ rt.policy.max_attempts = 3
    /\ Len(rt.invocations) = 1 /\ FatalFailure(rt.invocations[1])
    /\ rt.sleeps = <<>>
    /\ rt.result = Some(rt.invocations[1])

\* min(initial_delay x multiplier^k, max_delay)
CappedBackoff(policy, k) ==
    Min((policy.initial_delay * policy.backoff_multiplier[1] ^ k)
            \div (policy.backoff_multiplier[2] ^ k),
        policy.max_delay)

\* C16: the delay slept after the k-th failed invocation (k from 0) is
\* min(initial_delay x multiplier^k, max_delay), for every policy
C16_DelayFormula ==
    \A k \in 1..Len(rt.sleeps) : rt.sleeps[k] = CappedBackoff(rt.policy, k - 1)

RECURSIVE SumTo(_, _)
SumTo(f, n) == IF n <= 0 THEN 0 ELSE f[n] + SumTo(f, n - 1)

\* one sleep after each retryable failure that is not the final attempt, none after
\* a success or after the final attempt
OneSleepPerRetry ==
    LET m == Len(rt.invocations)
    IN  /\ rt.pc = "invoke" => Len(rt.sleeps) = m
        /\ rt.pc \in {"sleep", "done"} => Len(rt.sleeps) = m - 1

\* C17: a retry call that makes m invocations sleeps exactly once after each retryable
\* failure that is not the final attempt, and its total wait is the sum of the m-1
\* capped backoff delays
C17_SleepsAndTotalWait ==
    /\ OneSleepPerRetry
    /\ rt.pc = "done" =>
          LET m == Len(rt.invocations)
          IN  SumTo(rt.sleeps, Len(rt.sleeps))
                  = SumTo([k \in 1..(m - 1) |-> CappedBackoff(rt.policy, k - 1)], m - 1)

----------------------------------------------------------------------------
(* Further properties of a single-target attempt *)

StageOrder ==
    <<"Initial", "Detecting", "Validating", "DryRun", "Confirming", "Publishing",
      "Verifying", "Success">>

Rank(stage) == CHOOSE k \in 1..Len(StageOrder) : StageOrder[k] = stage

\* C18: the to-stages recorded in one attempt follow the order Initial, Detecting,
\* Validating, DryRun, Confirming, Publishing, Verifying, Success: none twice, none
\* before an earlier one, and Failed only as the last entry
C18_StagesInOrder ==
    \A t \in Procs :
        LET tr == sm[t].transitions IN
        /\ \A i \in 1..Len(tr) :
              tr[i].to \in {StageOrder[k] : k \in 1..Len(StageOrder)} \cup {"Failed"}
        /\ \A i, j \in 1..Len(tr) :
              i < j => /\ tr[i].to # "Failed"
                       /\ tr[j].to # "Failed" => Rank(tr[i].to) < Rank(tr[j].to)

\* C18 witness: an attempt has recorded all eight stages
C18_Witness ==
    /\ pc[1] = "done"
    /\ Len(sm[1].transitions) = 8
    /\ sm[1].current_state = "Success"

Recorded(t, stage) == \E i \in 1..Len(sm[t].transitions) : sm[t].transitions[i].to = stage

\* C19: an attempt with dry_run requested never records Publishing or Verifying and
\* never invokes the backend's publish or verify; when detection, the security gate
\* and validation pass it returns success = true with state "DRY_RUN"
C19_DryRunOnly ==
    \A t \in Procs :
        (opts[t].dry_run /\ pc[t] \notin {"idle", "start"}) =>
            /\ ~Recorded(t, "Publishing") /\ ~Recorded(t, "Verifying")
            /\ ~InSeq("publish", calls[t]) /\ ~InSeq("verify", calls[t])
            /\ pc[t] = "done" =>
                  \/ /\ outcome[t][1].kind = "ok"
                     /\ outcome[t][1].value.success
                     /\ outcome[t][1].value.state = "DRY_RUN"
                  \/ /\ outcome[t][1].kind = "err"
                     /\ outcome[t][1].msg \in {"No registries detected", "Registry not detected",
                                               "secrets detected", "Validation failed"}

\* C19 witness: a dry-run attempt has passed validation and returned
C19_Witness ==
    /\ pc[1] = "done" /\ opts[1].dry_run /\ ~opts[1].resume
    /\ calls[1] = <<"detect_plugins", "load_plugin", "scan_project", "validate">>
    /\ outcome[1][1].kind = "ok"
    /\ outcome[1][1].value.state = "DRY_RUN"

Invocations(t, what) == Cardinality({i \in 1..Len(calls[t]) : calls[t][i] = what})

\* C20: in every attempt the backend's publish is invoked at most once, and a failed
\* publish is returned as the attempt's error
C20_PublishAtMostOnce ==
    \A t \in Procs :
        /\ Invocations(t, "publish") <= 1
        /\ (pc[t] = "done" /\ outcome[t] = Some(Err("Publishing failed"))) =>
              /\ Invocations(t, "publish") = 1
              /\ calls[t][Len(calls[t])] = "publish"

\* C20 witness: the publish call of an attempt failed and the attempt returned
C20_Witness ==
    /\ pc[1] = "done"
    /\ outcome[1] = Some(Err("Publishing failed"))
    /\ Invocations(1, "publish") = 1
    /\ sm[1].current_state = "Publishing"

\* C21: once verify has been called (publish has reported success), whatever verify
\* answers, the attempt goes to Success and returns success = true with state
\* "SUCCESS"; the report carries the warnings, a verification problem among them
C21_VerifyNeverFails ==
    \A t \in Procs :
        (InSeq("verify", calls[t]) /\ pc[t] # "crashed") =>
            /\ sm[t].current_state = "Success"
            /\ pc[t] = "done" =>
                  /\ outcome[t][1].kind = "ok"
                  /\ outcome[t][1].value.success
                  /\ outcome[t][1].value.state = "SUCCESS"
                  /\ outcome[t][1].value.warnings = warnings[t]

\* C21 witness: verify raised an error and the attempt returned a successful report
\* with the warning
C21_Witness ==
    /\ pc[1] = "done"
    /\ InSeq("verify", calls[1])
    /\ outcome[1][1].kind = "ok" /\ outcome[1][1].value.success
    /\ InSeq("Verification error", outcome[1][1].value.warnings)

\* C22: an attempt whose operator declined at the confirmation is at stage Failed,
\* has never invoked the backend's publish, and returns a report (not an error)
\* with success = false and the error "User cancelled"
C22_DeclineAtConfirm ==
    \A t \in Procs :
        (Recorded(t, "Failed") /\ pc[t] # "crashed") =>
            /\ sm[t].current_state = "Failed"
            /\ calls[t][Len(calls[t])] = "confirm"
            /\ ~InSeq("publish", calls[t])
            /\ pc[t] = "done" =>
                  /\ outcome[t][1].kind = "ok"
                  /\ ~outcome[t][1].value.success
                  /\ outcome[t][1].value.errors = <<"User cancelled">>

\* C22 witness: the operator declined and the attempt has returned
C22_Witness ==
    /\ pc[1] = "done"
    /\ Recorded(1, "Confirming") /\ Recorded(1, "Failed")
    /\ outcome[1][1].kind = "ok" /\ ~outcome[1][1].value.success

\* C23: a non-interactive attempt that has run the secrets scan never asks the
\* operator and never returns the error of the security gate; with findings it has
\* recorded the warning, and it has gone on to Validating and to plugin.validate()
C23_GateNeverFailsNonInteractive ==
    \A t \in Procs :
        (opts[t].non_interactive /\ InSeq("scan_project", calls[t])) =>
            /\ pc[t] # "confirm_secrets"
            /\ ~InSeq("confirm", calls[t])
            /\ outcome[t] # Some(Err("secrets detected"))
            /\ findings > 0 => InSeq("potential secrets detected", warnings[t])
            /\ Recorded(t, "Validating")
            /\ pc[t] = "done" => InSeq("validate", calls[t])

\* C23 witness: a non-interactive attempt in a project with findings has validated
C23_Witness ==
    /\ opts[1].non_interactive /\ findings > 0
    /\ InSeq("validate", calls[1])
    /\ warnings[1] = <<"potential secrets detected">>

\* C24: the registry of an attempt is the caller's explicit registry when there is
\* one; without it and with a non-empty list of detected registries it is the first
\* detected one, whatever default registry the configuration names
C24_SelectionOrder ==
    [][\A t \in Procs :
          (pc[t] = "start" /\ pc'[t] \notin {"start", "crashed"}) =>
              /\ opts[t].registry # None => RegistryName(t)' = opts[t].registry[1]
              /\ (opts[t].registry = None /\ detected # <<>>) =>
                    RegistryName(t)' = detected[1]]_vars

\* C26: an attempt with hooks_only requested never records Publishing or Verifying
\* and never invokes the backend's publish or verify; unless an earlier step ended
\* it (detection, security gate, validation, dry-run, a declined confirmation), it
\* returns success = true
C26_HooksOnly ==
    \A t \in Procs :
        (opts[t].hooks_only /\ pc[t] \notin {"idle", "start"}) =>
            /\ ~Recorded(t, "Publishing") /\ ~Recorded(t, "Verifying")
            /\ ~InSeq("publish", calls[t]) /\ ~InSeq("verify", calls[t])
            /\ pc[t] = "done" =>
                  \/ /\ outcome[t][1].kind = "ok"
                     /\ outcome[t][1].value.success
                  \/ /\ outcome[t][1].kind = "ok"
                     /\ outcome[t][1].value.errors = <<"User cancelled">>
                     /\ Recorded(t, "Failed")
                  \/ /\ outcome[t][1].kind = "err"
                     /\ outcome[t][1].msg \in {"No registries detected", "Registry not detected",
                                               "secrets detected", "Validation failed",
                                               "Dry-run failed"}

\* C26 witness: a hooks-only attempt went through the dry-run and the confirmation
\* and returned success
C26_Witness ==
    /\ pc[1] = "done" /\ opts[1].hooks_only /\ ~opts[1].dry_run
    /\ InSeq("dry_run", calls[1]) /\ Recorded(1, "Confirming")
    /\ outcome[1][1].kind = "ok" /\ outcome[1][1].value.success

----------------------------------------------------------------------------
(* Further properties of a batch run *)

\* C25: every attempt of a batch runs with non_interactive set: it is never at a
\* prompt, has never called confirm and has no Confirming transition
C25_BatchNeverPrompts ==
    \A t \in Procs :
        /\ pc[t] \notin {"idle", "acquire"} => opts[t].non_interactive
        /\ pc[t] \notin {"confirm_secrets", "confirm", "cancelled"}
        /\ ~InSeq("confirm", calls[t])
        /\ ~Recorded(t, "Confirming")

\* C25 witness: the caller left non_interactive unset, the project has findings, and
\* an attempt of the batch has passed the security gate and the confirmation step
C25_Witness ==
    /\ ~bopts.publish_options.non_interactive
    /\ findings > 0
    /\ \E t \in Procs : InSeq("publish", calls[t])

\* C27: in a returned batch result the success flag is true exactly when the failed
\* set and the skipped set are both empty
C27_SuccessIffNoneFailedOrSkipped ==
    Returned => (result.success <=> (DOMAIN result.failed = {} /\ result.skipped = <<>>))

\* C27 witness: a batch returned with a failed registry and a skipped one
C27_Witness ==
    /\ Returned
    /\ DOMAIN result.failed # {}
    /\ result.skipped # <<>>
    /\ ~result.success

\* C28: publish_to_multiple with an empty list is rejected at once: no result is
\* built, no attempt is started and no file is touched
C28_EmptyListRejected ==
    (registries = <<>> /\ bpc # "entry") =>
        /\ bpc = "rejected"
        /\ result = EmptyResult
        /\ \A t \in Procs : pc[t] = "idle"
        /\ \A name \in {STATE_FILE, TEMP_FILE} : files[name] = None

\* C28 witness: the call with the empty list has returned its error
C28_Witness == registries = <<>> /\ bpc = "rejected"

\* C30: while an attempt is at the backend's publish call, the state file holds a
\* complete snapshot of this attempt at stage Publishing with canResume set, so that
\* a crash there leaves a resumable snapshot
C30_PersistedBeforePublish ==
    \A t \in Procs :
        pc[t] = "publish" =>
            /\ Exists(STATE_FILE)
            /\ Complete(Content(STATE_FILE))
            /\ StateDoc.current_state = "Publishing"
            /\ StateDoc.can_resume
            /\ StateDoc.transitions = sm[t].transitions

----------------------------------------------------------------------------
(* Properties of the state machine on a failing storage *)

\* the file operation that process t is about to make fails
MeetsFailure(t) ==
    \/ pc[t] = "save_create" /\ fault = "create"
    \/ pc[t] = "save_write" /\ fault = "write"
    \/ pc[t] = "save_rename" /\ (fault = "rename" \/ ~Exists(TEMP_FILE))
    \/ pc[t] \in {"restore_exists", "clear_exists"} /\ fault = "exists"
    \/ pc[t] = "restore_read"
          /\ (fault = "read" \/ ~Exists(STATE_FILE) \/ ~Complete(Content(STATE_FILE)))
    \/ pc[t] = "clear_remove" /\ (fault = "remove" \/ ~Exists(STATE_FILE))

\* C29: whenever a file operation of transition, restore or clear fails (the write
\* or the rename of the temp file, the read or the parse of the state file, the
\* check for or the removal of the state file), the call returns an error
C29_StorageFailuresPropagate ==
    [][\A t \in Procs :
          (MeetsFailure(t) /\ pc'[t] # pc[t]) =>
              /\ pc'[t] = ret[t]
              /\ callres'[t].kind = "err"]_vars

----------------------------------------------------------------------------
(* Properties of a single-target attempt: what comes before what *)

\* position of the first call of `what` in the call log of t (0: never called)
FirstCall(t, what) ==
    IF InSeq(what, calls[t])
    THEN CHOOSE i \in 1..Len(calls[t]) :
            calls[t][i] = what /\ \A j \in 1..(i - 1) : calls[t][j] # what
    ELSE 0

\* C31: the backend's publish is invoked only after validate was called and said
\* valid and, if dry_run was called, after it succeeded; an attempt whose validate
\* said invalid or whose dry_run failed returns an error and has no Publishing
\* transition
C31_PublishOnlyAfterValidation ==
    \A t \in Procs :
        /\ (InSeq("publish", calls[t]) \/ Recorded(t, "Publishing")) =>
              /\ InSeq("validate", calls[t])
              /\ InSeq("publish", calls[t]) =>
                    FirstCall(t, "validate") < FirstCall(t, "publish")
              /\ ~InSeq("invalid", calls[t]) /\ ~InSeq("failed", calls[t])
        /\ (InSeq("invalid", calls[t]) \/ InSeq("failed", calls[t])) =>
              /\ pc[t] \in {"done", "crashed"}
              /\ outcome[t][1].kind = "err"
              /\ ~Recorded(t, "Publishing")

\* C31 witness: an attempt whose dry_run failed has returned
C31_Witness ==
    /\ pc[1] = "done"
    /\ InSeq("failed", calls[1])
    /\ outcome[1] = Some(Err("Dry-run failed"))
    /\ sm[1].current_state = "DryRun"

\* C32: validate is called only after the secrets scan; an interactive attempt in a
\* project with findings validates only after the operator was asked; when the
\* operator declined, the attempt has returned the error of the gate and has never
\* called validate, dry_run or publish
C32_GateBeforeValidation ==
    \A t \in Procs :
        /\ InSeq("validate", calls[t]) =>
              /\ InSeq("scan_project", calls[t])
              /\ FirstCall(t, "scan_project") < FirstCall(t, "validate")
              /\ (~opts[t].non_interactive /\ findings > 0) =>
                    /\ InSeq("confirm", calls[t])
                    /\ FirstCall(t, "scan_project") < FirstCall(t, "confirm")
                    /\ FirstCall(t, "confirm") < FirstCall(t, "validate")
        /\ InSeq("declined", calls[t]) =>
              /\ pc[t] = "done"
              /\ outcome[t] = Some(Err("secrets detected"))
              /\ ~InSeq("validate", calls[t])
              /\ ~InSeq("dry_run", calls[t])
              /\ ~InSeq("publish", calls[t])

\* C32 witness: the operator declined after findings and the attempt has returned
C32_Witness ==
    /\ pc[1] = "done"
    /\ ~opts[1].non_interactive /\ findings > 0
    /\ calls[1] = <<"detect_plugins", "load_plugin", "scan_project", "confirm", "declined">>
    /\ outcome[1] = Some(Err("secrets detected"))

\* C33: an attempt in a project where nothing is detected returns the error "No
\* registries detected" (an error, not a report) and has loaded no backend, run no
\* secrets scan and called no backend method
C33_NothingDetected ==
    \A t \in Procs :
        (detected = <<>> /\ InSeq("detect_plugins", calls[t])) =>
            /\ pc[t] = "done"
            /\ outcome[t] = Some(Err("No registries detected"))
            /\ calls[t] = <<"detect_plugins">>
            /\ sm[t].current_state = "Detecting"

\* C33 witness: detection came back empty and the attempt has returned
C33_Witness ==
    /\ detected = <<>>
    /\ pc[1] = "done"
    /\ calls[1] = <<"detect_plugins">>

----------------------------------------------------------------------------
(* Further properties of the state machine on its own *)

\* each record starts where the one before it ended, and the machine is where the
\* last record ended
Chained(m) ==
    /\ \A i \in 2..Len(m.transitions) : m.transitions[i].from = m.transitions[i - 1].to
    /\ m.transitions # <<>> => m.current_state = m.transitions[Len(m.transitions)].to

\* the step of t is the in-memory part of a transition call
TransitionStep(t) == pc[t] = "api" /\ pc'[t] = "save_create"

\* C34: a transition call leaves the records it found untouched and adds one record
\* at the end, from the stage that was current to the stage asked for; in every
\* state each record's from-stage is the to-stage of the record before it and the
\* current stage is the to-stage of the last record
C34_TransitionOnlyAppends ==
    /\ [](\A t \in Procs : Chained(sm[t]))
    /\ [][\A t \in Procs :
            TransitionStep(t) =>
                LET old == sm[t].transitions
                    new == sm'[t].transitions
                IN  /\ Len(new) = Len(old) + 1
                    /\ SubSeq(new, 1, Len(old)) = old
                    /\ new[Len(new)].from = sm[t].current_state
                    /\ new[Len(new)].to = sm'[t].current_state]_vars

\* C34 witness: a machine with two records, the second one a transition back to a
\* stage it had left
C34_Witness ==
    /\ Len(sm[1].transitions) = 2
    /\ sm[1].transitions[1].from = "Initial"
    /\ sm[1].transitions[1].to = "Publishing"
    /\ sm[1].transitions[2].to = "Detecting"
    /\ pc[1] = "api"

----------------------------------------------------------------------------
(* Properties of the state file after a concurrent batch *)

\* the batch has returned and none of its attempts is running any more
Quiet == Returned /\ \A t \in Procs : pc[t] \in {"idle", "done"}

\* C35: when a concurrent batch is over, the state file holds one complete
\* snapshot: that of the attempt whose persist was the last to succeed, with that
\* attempt's stage and transitions
C35_LastWriterWins ==
    (Concurrent /\ Quiet /\ persisted # None) =>
        /\ Exists(STATE_FILE)
        /\ Complete(Content(STATE_FILE))
        /\ StateDoc.current_state = persisted[1].current_state
        /\ StateDoc.transitions = persisted[1].transitions

----------------------------------------------------------------------------
(* Termination of a concurrent batch *)

\* C40: a concurrent batch that has begun to spawn its tasks eventually returns its
\* result, and no task stays waiting for a permit forever
C40_ConcurrentBatchReturns ==
    /\ (bpc = "spawn") ~> Returned
    /\ \A t \in 1..MaxRegs :
          (t \in Procs /\ pc[t] = "acquire") ~> (t \notin Procs \/ pc[t] # "acquire")

----------------------------------------------------------------------------
(* Properties of a single-target attempt: the terminal stages *)

\* C36: an attempt records Success only after it has called the backend's publish;
\* an attempt with dry_run or hooks_only, a cancelled attempt and an attempt that
\* returned an error have no transition to Success, and a state file at Success
\* written by the attempt comes from such a publish
C36_SuccessOnlyAfterPublish ==
    \A t \in Procs :
        /\ Recorded(t, "Success") =>
              /\ InSeq("publish", calls[t])
              /\ sm[t].current_state = "Success"
              /\ ~opts[t].dry_run /\ ~opts[t].hooks_only
              /\ ~Recorded(t, "Failed")
              /\ pc[t] = "done" =>
                    /\ outcome[t][1].kind = "ok"
                    /\ outcome[t][1].value.success
                    /\ outcome[t][1].value.state = "SUCCESS"
        /\ (pc[t] = "done" /\ outcome[t][1].kind = "err") => ~Recorded(t, "Success")
        /\ (Running(t) /\ ~Recorded(t, "Success") /\ Exists(STATE_FILE)
                /\ Complete(Content(STATE_FILE))
                /\ StateDoc.transitions = sm[t].transitions) =>
              StateDoc.current_state # "Success"

\* C36 witness: an attempt published without verification and persisted Success
C36_Witness ==
    /\ pc[1] = "done"
    /\ calls[1][Len(calls[1])] = "publish"
    /\ Recorded(1, "Success")
    /\ Exists(STATE_FILE) /\ Complete(Content(STATE_FILE))
    /\ StateDoc.current_state = "Success"

\* the stage at which an attempt is when it returns the error `msg`
StageOfError(msg) ==
    CASE msg \in {"No registries detected", "Registry not detected", "secrets detected"}
              -> "Detecting"
      [] msg = "Validation failed" -> "Validating"
      [] msg = "Dry-run failed"    -> "DryRun"
      [] msg = "Publishing failed" -> "Publishing"

StepErrors ==
    {"No registries detected", "Registry not detected", "secrets detected",
     "Validation failed", "Dry-run failed", "Publishing failed"}

\* C37: a transition to Failed is recorded only from Confirming, after the prompt;
\* an attempt that returned the error of detection, the security gate, validation,
\* dry-run or publish is still at the stage it was executing, and the state file
\* holds its snapshot at that stage with canResume set
C37_FailedOnlyOnDecline ==
    \A t \in Procs :
        /\ \A i \in 1..Len(sm[t].transitions) :
              sm[t].transitions[i].to = "Failed" =>
                  /\ sm[t].transitions[i].from = "Confirming"
                  /\ InSeq("confirm", calls[t])
        /\ (pc[t] = "done" /\ outcome[t][1].kind = "err" /\ outcome[t][1].msg \in StepErrors) =>
              /\ sm[t].current_state = StageOfError(outcome[t][1].msg)
              /\ CanResume(sm[t])
              /\ Exists(STATE_FILE) /\ Complete(Content(STATE_FILE))
              /\ StateDoc.current_state = sm[t].current_state
              /\ StateDoc.transitions = sm[t].transitions
              /\ StateDoc.can_resume

\* C37 witness: an attempt whose publish failed has returned, the state file at
\* Publishing
C37_Witness ==
    /\ pc[1] = "done"
    /\ outcome[1] = Some(Err("Publishing failed"))
    /\ Exists(STATE_FILE) /\ Complete(Content(STATE_FILE))
    /\ StateDoc.current_state = "Publishing" /\ StateDoc.can_resume

----------------------------------------------------------------------------
(* Further properties of the state machine on a failing storage *)

\* the step of t is a save that gives up with an error
SaveFails(t) ==
    /\ pc[t] \in {"save_create", "save_write", "save_rename"}
    /\ pc'[t] = ret[t]
    /\ callres'[t].kind = "err"

\* the machine of t was, before the transition call it is in, what the last
\* successful save persisted
OneAhead(t) ==
    /\ persisted # None
    /\ sm[t].transitions # <<>>
    /\ SubSeq(sm[t].transitions, 1, Len(sm[t].transitions) - 1) = persisted[1].transitions

\* C38: when the save inside a transition call fails, the call returns the error,
\* the machine keeps the new record and the new stage, and the state file is left as
\* it was: after a successful transition it still holds that transition's snapshot,
\* one record shorter than the list in memory
C38_FailedSaveKeepsMemory ==
    [][\A t \in Procs :
          SaveFails(t) =>
              /\ sm'[t] = sm[t]
              /\ sm'[t].current_state = sm[t].transitions[Len(sm[t].transitions)].to
              /\ files'[STATE_FILE] = files[STATE_FILE]
              /\ OneAhead(t) =>
                    /\ Exists(STATE_FILE)' /\ Complete(Content(STATE_FILE))'
                    /\ StateDoc'.transitions = persisted[1].transitions
                    /\ StateDoc'.current_state = persisted[1].current_state
                    /\ Len(sm'[t].transitions) = Len(StateDoc'.transitions) + 1]_vars

\* C38 witness: a transition has succeeded, the storage has begun to fail, and the
\* next transition has returned an error
C38_Witness ==
    /\ pc[1] = "api"
    /\ callres[1].kind = "err"
    /\ fault \in {"create", "write", "rename"}
    /\ OneAhead(1)
    /\ Exists(STATE_FILE) /\ Complete(Content(STATE_FILE))
    /\ Len(sm[1].transitions) = 2
    /\ Len(StateDoc.transitions) = 1
    /\ sm[1].current_state # StateDoc.current_state


\* C39: for every retry policy, max_attempts = 0 included, a retry call that
\* has ended invoked the operation at least once and returns what the last
\* invocation returned (its value or its error); last_error.unwrap() after
\* the loop never panics on an empty last_error
C39_RetryInvokesAtLeastOnce ==
    /\ rt.pc # "panicked"
    /\ rt.pc = "done" =>
          /\ Len(rt.invocations) >= 1
          /\ rt.result = Some(rt.invocations[Len(rt.invocations)])

====
